---------------------------- MODULE Spec2Model ----------------------------
(* A model of gab.py, the dynamic Gab.com API client.                     *)
(*                                                                        *)
(* Strings that the code inspects character by character (names) are      *)
(* sequences of one-character strings.  URLs are sequences of pieces: a   *)
(* literal piece, the {{base_url}} marker, a {placeholder} or the "?"     *)
(* that starts the query string.  Python dicts are functions whose        *)
(* DOMAIN is the set of keys present, so a missing key is a key that is   *)
(* not in the DOMAIN.                                                     *)
(*                                                                        *)
(* The attributes setattr adds to a Client (one per collection) and to a  *)
(* Collection (one per operation) are kept in the object's attrs, apart   *)
(* from the attributes the classes use themselves: the names found in a   *)
(* discovery document are taken not to be names such as _discovery, _add  *)
(* or __doc__, which would shadow or be overwritten by the object's own.  *)
(* The help texts (__doc__, _description), the declared headers and the   *)
(* scopes play no part in a request and are not modelled.                 *)
EXTENDS Integers, Sequences, FiniteSets, TLC

VARIABLES
    name,         \* _clean_name: the argument
    cleaned,      \* _clean_name: the value returned
    options,      \* gab.Options handed to Client()
    serverDoc,    \* the JSON the discovery endpoint serves
    client,       \* the Client instance (its attributes)
    operation,    \* the Operation instance being called
    callArgs,     \* *args of the last Operation.__call__
    callKwargs,   \* **kwargs of the last Operation.__call__
    lastCall,     \* the entry point invoked last
    result,       \* what the last invocation returned or raised
    requests      \* every HTTP request the session has been asked to send

vars == <<name, cleaned, options, serverDoc, client, operation, callArgs,
          callKwargs, lastCall, result, requests>>

--------------------------------------------------------------------------
(* Bounds *)

MaxNameLen == 3
MaxPathArgs == 2
MaxCollections == 2

--------------------------------------------------------------------------
(* Strings *)

\* "abc" as the sequence of its characters is written <<"a","b","c">>.
UpperCase == <<"A","B","C","D","E","F","G","H","I","J","K","L","M",
               "N","O","P","Q","R","S","T","U","V","W","X","Y","Z">>
LowerCase == <<"a","b","c","d","e","f","g","h","i","j","k","l","m",
               "n","o","p","q","r","s","t","u","v","w","x","y","z">>

\* str.lower() on one character
LowerChar(c) ==
    IF \E i \in 1..Len(UpperCase) : UpperCase[i] = c
    THEN LowerCase[CHOOSE i \in 1..Len(UpperCase) : UpperCase[i] = c]
    ELSE c

\* str.lower()
Lower(s) == [i \in 1..Len(s) |-> LowerChar(s[i])]

\* str.replace(find, replace) for a one-character find
RECURSIVE StrReplace(_, _, _)
StrReplace(s, find, replace) ==
    IF s = <<>> THEN <<>>
    ELSE (IF Head(s) = find THEN replace ELSE <<Head(s)>>)
         \o StrReplace(Tail(s), find, replace)

\* the replacements dict of _clean_name, in its insertion order
replacements == << <<" ", <<"_">> >>, <<"-", <<>> >>,
                   <<"'", <<>> >>, <<"\"", <<>> >> >>

RECURSIVE ApplyReplacements(_, _)
ApplyReplacements(s, reps) ==
    IF reps = <<>> THEN s
    ELSE ApplyReplacements(StrReplace(s, Head(reps)[1], Head(reps)[2]),
                           Tail(reps))

\* a plausible slip: the name is returned without .lower()
CleanNameNoLower(s) == ApplyReplacements(s, replacements)

\* _clean_name
CleanName(s) == Lower(ApplyReplacements(s, replacements))

--------------------------------------------------------------------------
(* Python values *)

None == "None"

\* {}
EmptyDict == [k \in {} |-> None]

\* dict.get(key, default)
Get(d, key, default) == IF key \in DOMAIN d THEN d[key] ELSE default

\* x in list
InList(l, x) == \E i \in 1..Len(l) : l[i] = x

\* list.index(x), 0-based: the first occurrence
ListIndex(l, x) ==
    (CHOOSE i \in 1..Len(l) : l[i] = x /\ \A j \in 1..(i - 1) : l[j] # x) - 1

\* a plausible slip: list.append in place of list.insert
ListInsertAppends(l, index, value) == Append(l, value)

\* list.insert(index, value), 0-based: an index past the end appends
ListInsert(l, index, value) ==
    IF index >= Len(l) THEN Append(l, value)
    ELSE SubSeq(l, 1, index) \o <<value>> \o SubSeq(l, index + 1, Len(l))

SetMin(S) == CHOOSE x \in S : \A y \in S : x <= y
SetMax(S) == CHOOSE x \in S : \A y \in S : x >= y

\* dict(zip(keys, values)): zip stops at the shorter, a repeated key keeps
\* its last value
ZipDict(keys, values) ==
    LET n == IF Len(keys) < Len(values) THEN Len(keys) ELSE Len(values)
    IN  [k \in {keys[i] : i \in 1..n} |->
            values[SetMax({i \in 1..n : keys[i] = k})]]

\* the values a caller passes, and str(value)
Values == {1, 2}
ValueText == <<"1", "2">>
ToStr(v) == ValueText[v]

--------------------------------------------------------------------------
(* URLs *)

Lit(text) == [kind |-> "lit", text |-> text]
\* "{text}"
Ph(text) == [kind |-> "ph", text |-> text]
\* "{{base_url}}"
BaseUrl == [kind |-> "base", text |-> "base_url"]
\* the "?" that starts the query string
QMark == [kind |-> "qmark", text |-> "?"]

\* uri.split("?")[0]
RECURSIVE BeforeQuery(_)
BeforeQuery(uri) ==
    IF uri = <<>> \/ Head(uri).kind = "qmark" THEN <<>>
    ELSE <<Head(uri)>> \o BeforeQuery(Tail(uri))

\* _operation_uri
OperationUri(opts, uri) ==
    LET path == BeforeQuery(uri)
    IN  [i \in 1..Len(path) |->
            IF path[i].kind = "base" THEN Lit(opts.api_root) ELSE path[i]]

\* str.format(**mapping) raises KeyError for a field the mapping lacks
FormatRaises(template, mapping) ==
    \E i \in 1..Len(template) :
        template[i].kind = "ph" /\ template[i].text \notin DOMAIN mapping

\* str.format(**mapping): the pieces of the resulting string
Format(template, mapping) ==
    [i \in 1..Len(template) |->
        IF template[i].kind = "ph" THEN ToStr(mapping[template[i].text])
        ELSE template[i].text]

--------------------------------------------------------------------------
(* Operation *)

\* the {name} segments of urlObject.path, braces removed, in order
PathArgs(path) ==
    LET braced == SelectSeq(path, LAMBDA arg : arg.kind = "ph")
    IN  [i \in 1..Len(braced) |-> braced[i].text]

\* _query_args: name -> example value (the help text is not modelled)
QueryArgs(query) ==
    [k \in {query[i]["key"] : i \in 1..Len(query)} |->
        query[SetMax({i \in 1..Len(query) : query[i]["key"] = k})]["value"]]

\* Operation.__init__ raises KeyError when a key it indexes is missing
OperationInitRaises(op) ==
    \/ "name" \notin DOMAIN op
    \/ "request" \notin DOMAIN op
    \/ \E k \in {"method", "url", "description", "urlObject"} :
           k \notin DOMAIN op["request"]
    \/ LET query == Get(op["request"]["urlObject"], "query", <<>>)
       IN  \E i \in 1..Len(query) :
               ~ ({"key", "value"} \subseteq DOMAIN query[i])
    \/ LET header == Get(op["request"], "header", <<>>)
       IN  \E i \in 1..Len(header) :
               ~ ({"key", "value"} \subseteq DOMAIN header[i])

\* Operation.__init__ (the help text, headers and scopes are kept for
\* documentation only and are not modelled)
OperationInit(opts, op, parent) ==
    [_name       |-> CleanName(op["name"]),
     _parent     |-> CleanName(parent),
     _method     |-> Lower(op["request"]["method"]),
     _uri        |-> OperationUri(opts, op["request"]["url"]),
     _path_args  |-> PathArgs(Get(op["request"]["urlObject"], "path", <<>>)),
     _query_args |-> QueryArgs(Get(op["request"]["urlObject"], "query", <<>>))]

\* to_insert of _validate_path_args: declared index -> keyword value
ToInsert(path_args, kwargs) ==
    [i \in {ListIndex(path_args, k) :
               k \in {k \in DOMAIN kwargs : InList(path_args, k)}} |->
        kwargs[path_args[i + 1]]]

\* for index in sorted(to_insert): mutable_args.insert(index, ...)
RECURSIVE InsertSorted(_, _, _)
InsertSorted(mutable_args, to_insert, indexes) ==
    IF indexes = {} THEN mutable_args
    ELSE LET index == SetMin(indexes)
         IN  InsertSorted(ListInsert(mutable_args, index, to_insert[index]),
                          to_insert, indexes \ {index})

\* mutable_args after the keyword backfill
MutableArgs(path_args, args, kwargs) ==
    IF Len(args) < Len(path_args)
    THEN InsertSorted(args, ToInsert(path_args, kwargs),
                      DOMAIN ToInsert(path_args, kwargs))
    ELSE args

\* repr(name)
Repr(s) == [kind |-> "repr", text |-> s]

\* ", ".join(names)
RECURSIVE JoinComma(_)
JoinComma(names) ==
    IF names = <<>> THEN <<>>
    ELSE IF Len(names) = 1 THEN <<names[1]>>
    ELSE <<names[1], Lit(", ")>> \o JoinComma(Tail(names))

\* missing_arg_names: range(missing_args - 1, len(self._path_args))
MissingArgNames(path_args, missing_args) ==
    [i \in 1..(Len(path_args) - missing_args + 1) |->
        Repr(path_args[i + missing_args - 1])]

\* the TypeError for too few arguments
MissingError(op, missing_args) ==
    LET missing_arg_names == MissingArgNames(op._path_args, missing_args)
    IN  [exc    |-> "TypeError",
         form   |-> "missing",
         parent |-> op._parent,
         name   |-> op._name,
         count  |-> missing_args,
         plural |-> IF missing_args > 1 THEN "s" ELSE "",
         list   |-> JoinComma(SubSeq(missing_arg_names, 1,
                                     Len(missing_arg_names) - 1))
                    \o (IF missing_args > 1 THEN <<Lit(" and ")>> ELSE <<>>)
                    \o <<missing_arg_names[Len(missing_arg_names)]>>]

\* the TypeError for too many arguments
TakesError(op, mutable_args) ==
    [exc      |-> "TypeError",
     form     |-> "takes",
     parent   |-> op._parent,
     name     |-> op._name,
     expected |-> Len(op._path_args),
     plural   |-> IF Len(op._path_args) > 1 THEN "s" ELSE "",
     given    |-> Len(mutable_args)]

\* how an invocation ends, and the requests it sent.  error and value are
\* <<>> when there is none (value: when None is returned) and <<x>> else.
Raise(error, sent) ==
    [raised |-> TRUE, error |-> <<error>>, value |-> <<>>, requests |-> sent]
Return(value, sent) ==
    [raised |-> FALSE, error |-> <<>>, value |-> <<value>>, requests |-> sent]
ReturnNone(sent) ==
    [raised |-> FALSE, error |-> <<>>, value |-> <<>>, requests |-> sent]

\* a plausible slip: surplus arguments are let through
ValidatePathArgsNoSurplusCheck(op, args, kwargs) ==
    LET mutable_args == MutableArgs(op._path_args, args, kwargs)
        missing_args == Len(op._path_args) - Len(mutable_args)
    IN  IF missing_args > 0 THEN Raise(MissingError(op, missing_args), <<>>)
        ELSE Return(mutable_args, <<>>)

\* Operation._validate_path_args
ValidatePathArgs(op, args, kwargs) ==
    LET mutable_args == MutableArgs(op._path_args, args, kwargs)
        missing_args == Len(op._path_args) - Len(mutable_args)
    IN  IF missing_args > 0 THEN Raise(MissingError(op, missing_args), <<>>)
        ELSE IF missing_args < 0 THEN Raise(TakesError(op, mutable_args), <<>>)
        ELSE Return(mutable_args, <<>>)

--------------------------------------------------------------------------
(* HTTP *)

\* the status codes the server answers with
Statuses == {200, 304, 404, 500}

\* an answer of the server: its status and what its body holds
Answer(status, body) == [status |-> status, body |-> body]

\* a plausible slip: only server errors raise
RaiseForStatusServerOnly(status) == status >= 500 /\ status < 600

\* requests.Response.raise_for_status raises HTTPError for 4xx and 5xx
RaiseForStatus(status) == status >= 400 /\ status < 600

\* Client._request: the session sends the request, the server answers
Request(uri, method, kwargs, answer) ==
    LET sent == [uri |-> uri, method |-> method, kwargs |-> kwargs,
                 status |-> answer.status, body |-> answer.body]
    IN  IF RaiseForStatus(answer.status)
        THEN Raise([exc |-> "HTTPError", status |-> answer.status], <<sent>>)
        ELSE Return(answer, <<sent>>)

\* a plausible slip: every keyword argument is forwarded
ParamsAll(op, kwargs) == kwargs

\* params: the keyword arguments the query schema declares
Params(op, kwargs) ==
    [qs_arg \in DOMAIN op._query_args \cap DOMAIN kwargs |-> kwargs[qs_arg]]

\* Operation.__call__
OperationCall(op, args, kwargs, answer) ==
    LET validated == ValidatePathArgs(op, args, kwargs)
    IN  IF validated.raised THEN validated
        ELSE LET mapping == ZipDict(op._path_args, validated.value[1])
             IN  IF FormatRaises(op._uri, mapping)
                 THEN Raise([exc |-> "KeyError"], <<>>)
                 ELSE Request(
                     Format(op._uri, mapping),
                     op._method,
                     [headers |-> Get(kwargs, "headers", EmptyDict),
                      json    |-> Get(kwargs, "body", None),
                      params  |-> Params(op, kwargs)],
                     answer)

--------------------------------------------------------------------------
(* Collection *)

\* d[key] = value
Put(d, key, value) ==
    [k \in DOMAIN d \cup {key} |-> IF k = key THEN value ELSE d[k]]

\* Collection.__init__; id tells the objects apart.  _operations is <<list>>
\* while the attribute exists and <<>> once delattr has removed it.  attrs
\* holds the attributes setattr adds, one per operation name.
CollectionInit(id, display_name) ==
    [id            |-> id,
     _name         |-> CleanName(display_name),
     _display_name |-> display_name,
     _operations   |-> << <<>> >>,
     _add          |-> "method",
     _finish       |-> "method",
     attrs         |-> EmptyDict]

\* Collection._add
CollectionAdd(col, oper) ==
    [col EXCEPT !.attrs = Put(@, oper._name, oper),
                !._operations = <<Append(@[1], oper)>>]

\* Collection._finish
CollectionFinish(col) ==
    [col EXCEPT !._add = "null", !._finish = "null", !._operations = <<>>]

--------------------------------------------------------------------------
(* Client *)

\* bool(api_collections): None and {} are false.  <<>> models None and
\* <<d>> the dict d.
Truthy(api_collections) ==
    api_collections # <<>> /\ DOMAIN api_collections[1] # {}

HttpGet == <<"g", "e", "t">>
KeyError == [exc |-> "KeyError"]
AttributeError == [exc |-> "AttributeError"]

\* Client._get_api_collections: page answers the first GET, json the second
GetApiCollections(opts, page, json) ==
    LET res == Request(<<opts.base_uri>>, HttpGet, EmptyDict, page)
    IN  IF res.raised THEN res
        ELSE IF "ownerId" \notin DOMAIN page.body
                \/ "publishedId" \notin DOMAIN page.body
        THEN Raise(AttributeError, res.requests)
        ELSE LET second == Request(
                     <<opts.base_uri, "api/collections/",
                       page.body["ownerId"], "/", page.body["publishedId"]>>,
                     HttpGet, EmptyDict, json)
             IN  IF second.raised
                 THEN Raise(second.error[1], res.requests \o second.requests)
                 ELSE Return(second.value[1].body,
                             res.requests \o second.requests)

\* the body of the loop over collection["item"]
RECURSIVE AddOperations(_, _, _, _)
AddOperations(opts, col, items, parent) ==
    IF items = <<>> THEN Return(col, <<>>)
    ELSE IF OperationInitRaises(Head(items)) THEN Raise(KeyError, <<>>)
    ELSE AddOperations(
             opts, CollectionAdd(col, OperationInit(opts, Head(items), parent)),
             Tail(items), parent)

\* one round of the loop over collections["item"]: the Collection built
ParseCollection(opts, id, collection) ==
    IF "name" \notin DOMAIN collection \/ "item" \notin DOMAIN collection
    THEN Raise(KeyError, <<>>)
    ELSE LET added == AddOperations(opts,
                                    CollectionInit(id, collection["name"]),
                                    collection["item"], collection["name"])
         IN  IF added.raised THEN added
             ELSE Return(CollectionFinish(added.value[1]), <<>>)

\* a plausible slip: a name already in methods keeps its first collection
StoreMethodFirstWins(methods, col) ==
    IF col._name \in DOMAIN methods THEN methods
    ELSE Put(methods, col._name, col)

\* methods[col._name] = col
StoreMethod(methods, col) == Put(methods, col._name, col)

\* the loop over collections["item"], from its id-th element on; where it
\* raises, partial is the local methods at that moment
RECURSIVE ParseFrom(_, _, _, _)
ParseFrom(opts, items, id, methods) ==
    IF id > Len(items) THEN Return(methods, <<>>)
    ELSE LET col == ParseCollection(opts, id, items[id])
         IN  IF col.raised
             THEN [raised |-> TRUE, error |-> col.error, value |-> <<>>,
                   requests |-> <<>>, partial |-> methods]
             ELSE ParseFrom(opts, items, id + 1,
                            StoreMethod(methods, col.value[1]))

\* Client._parse_api_collections
ParseApiCollections(opts, collections) ==
    IF "item" \notin DOMAIN collections
    THEN [raised |-> TRUE, error |-> <<KeyError>>, value |-> <<>>,
          requests |-> <<>>, partial |-> EmptyDict]
    ELSE ParseFrom(opts, collections["item"], 1, EmptyDict)

\* for name, collection in collections.items(): setattr(self, name, ...)
SetAttrs(attrs, collections) ==
    [k \in DOMAIN attrs \cup DOMAIN collections |->
        IF k \in DOMAIN collections THEN collections[k] ELSE attrs[k]]

\* a plausible slip: each collection is attached as soon as it is parsed, so
\* a later failure leaves the earlier ones on the client
AttrsWhenParseRaisesEager(c, parsed) == SetAttrs(c.attrs, parsed.partial)

\* the client's collection attributes when _parse_api_collections raises:
\* the setattr loop has not started
AttrsWhenParseRaises(c, parsed) == c.attrs

\* a plausible slip: the run-once methods are left in place
DisableRunOnceForgotten(c) == c

\* self._discovery = null; self._parse_api_collections = null
DisableRunOnce(c) ==
    [c EXCEPT !._discovery = "null", !._parse_api_collections = "null"]

\* a plausible slip: the cache is used whenever it is not None
UseCacheNotNone(api_collections) == api_collections # <<>>

\* api_collections or self._get_api_collections(): the left operand wins
\* when it is true
UseCache(api_collections) == Truthy(api_collections)

\* Client._discovery, the method: the client afterwards and the outcome
Discovery(c, page, json) ==
    LET opts == c._options
        found == IF UseCache(opts.api_collections)
                 THEN Return(opts.api_collections[1], <<>>)
                 ELSE GetApiCollections(opts, page, json)
    IN  IF found.raised THEN [client |-> c, outcome |-> found]
        ELSE LET parsed == ParseApiCollections(opts, found.value[1])
             IN  IF parsed.raised
                 THEN [client  |-> [c EXCEPT !.attrs =
                                       AttrsWhenParseRaises(c, parsed)],
                       outcome |-> Raise(parsed.error[1], found.requests)]
                 ELSE [client  |-> DisableRunOnce(
                                       [c EXCEPT !.attrs =
                                           SetAttrs(@, parsed.value[1])]),
                       outcome |-> ReturnNone(found.requests)]

\* the object Client.__init__ has before it calls self._discovery()
NewClient(opts) ==
    [state                  |-> "new",
     _options               |-> opts,
     _discovery             |-> "method",
     _parse_api_collections |-> "method",
     attrs                  |-> EmptyDict]

--------------------------------------------------------------------------
(* Inputs: discovery documents, pages, calls *)

SeqsUpTo(S, n) == UNION {[1..k -> S] : k \in 0..n}

\* Options() with the given api_collections
OptionsWith(api_collections) ==
    [base_uri        |-> "https://developers.gab.com/",
     api_root        |-> "https://api.gab.com/",
     api_collections |-> api_collections]

ParamNames == <<"a", "b", "c", "d">>

\* the operation entry "opname" of a discovery document: n path parameters
\* and the query parameters named in query,
\*   GET {{base_url}}/v1.0/items/{a}/{b}?q=1
OperationDict(opname, n, query) ==
    [name    |-> opname,
     request |->
        [method      |-> <<"G", "E", "T">>,
         url         |-> <<BaseUrl, Lit("/v1.0/items")>>
                         \o [j \in 1..(2 * n) |->
                                IF j % 2 = 1 THEN Lit("/")
                                ELSE Ph(ParamNames[j \div 2])]
                         \o <<QMark, Lit("q=1")>>,
         description |-> "text",
         urlObject   |->
            [path  |-> <<Lit("v1.0"), Lit("items")>>
                       \o [i \in 1..n |-> Ph(ParamNames[i])],
             query |-> [i \in 1..Len(query) |->
                          [key |-> query[i], value |-> 1]]]]]

Ping == <<"P", "i", "n", "g">>
Pong == <<"P", "o", "n", "g">>
OpPing == OperationDict(Ping, 0, <<>>)
OpPong == OperationDict(Pong, 0, <<>>)
\* an operation entry without its "request"
OpNoRequest == [name |-> Ping]

\* raw collection names: the first two normalise to the same identifier
NameAb == <<"A", "b">>
NameA_b == <<"a", "-", "b">>
NameC == <<"c">>

\* the collection entries documents are made of: three well-formed ones (one
\* of them without the optional description) and three that lack a key
CollectionDicts ==
    { [name |-> NameAb, description |-> "text", item |-> <<OpPing, OpPong>>],
      [name |-> NameA_b, description |-> "text", item |-> <<>>],
      [name |-> NameC, item |-> <<OpPing>>],
      [description |-> "text", item |-> <<OpPing>>],
      [name |-> NameC, description |-> "text"],
      [name |-> NameC, description |-> "text",
       item |-> <<OpPing, OpNoRequest>>] }

\* discovery documents: up to MaxCollections collections, or no "item"
DiscoveryDocs ==
    {[item |-> cs] : cs \in SeqsUpTo(CollectionDicts, MaxCollections)}
    \cup {[info |-> "text"]}

\* documents for calling: one collection with one operation that takes n
\* path parameters
CallDocs ==
    {[item |-> << [name |-> NameC,
                   item |-> <<OperationDict(Ping, n, query)>>] >>] :
        n \in 0..MaxPathArgs, query \in {<<>>, <<"q">>}}

\* the <meta> tags of the discovery page
PageMetas ==
    { [ownerId |-> "owner", publishedId |-> "published"],
      [ownerId |-> "owner"],
      [publishedId |-> "published"] }

\* positional arguments worth trying on op: up to one too many
ArgLists(op) == SeqsUpTo(Values, Len(op._path_args) + 1)

\* keyword arguments worth trying on op: its path and query parameters, and
\* "x", which it does not declare
KwargDicts(op) ==
    LET keys == {op._path_args[i] : i \in 1..Len(op._path_args)}
                \cup {"q", "x"}
    IN  UNION {[ks -> Values] : ks \in SUBSET keys}

NoOperation == [_name |-> <<>>]

--------------------------------------------------------------------------
(* Actions *)

Res(outcome) ==
    [raised |-> outcome.raised, error |-> outcome.error,
     value |-> outcome.value]

\* what a call of null leaves behind: it returns None and touches nothing
NullCall(entry) ==
    /\ lastCall' = entry
    /\ result' = Res(ReturnNone(<<>>))
    /\ requests' = <<>>
    /\ operation' = NoOperation
    /\ callArgs' = <<>>
    /\ callKwargs' = EmptyDict
    /\ UNCHANGED <<client, options, serverDoc, name, cleaned>>

InitWith(docs, kinds) ==
    /\ \E doc \in docs, kind \in kinds :
          /\ options = OptionsWith(CASE kind = "none" -> <<>>
                                     [] kind = "empty" -> <<EmptyDict>>
                                     [] kind = "cached" -> <<doc>>)
          /\ serverDoc = doc
    /\ client = NewClient(options)
    /\ operation = NoOperation
    /\ callArgs = <<>>
    /\ callKwargs = EmptyDict
    /\ lastCall = "none"
    /\ result = Res(ReturnNone(<<>>))
    /\ requests = <<>>
    /\ name = <<>>
    /\ cleaned = <<>>

Init == InitWith(DiscoveryDocs, {"none", "empty", "cached"})

InitCall == InitWith(CallDocs, {"cached"})

\* Client(options): __init__ runs self._discovery()
ClientInit ==
    /\ client.state = "new"
    /\ \E s1 \in Statuses, s2 \in Statuses, meta \in PageMetas :
          LET d == Discovery(client, Answer(s1, meta), Answer(s2, serverDoc))
          IN  /\ client' = [d.client EXCEPT !.state =
                               IF d.outcome.raised THEN "failed" ELSE "built"]
              /\ result' = Res(d.outcome)
              /\ requests' = d.outcome.requests
    /\ lastCall' = "Client"
    /\ operation' = NoOperation
    /\ callArgs' = <<>>
    /\ callKwargs' = EmptyDict
    /\ UNCHANGED <<options, serverDoc, name, cleaned>>

\* client._discovery() on a built client
ClientDiscovery ==
    /\ client.state = "built"
    /\ IF client._discovery = "null" THEN NullCall("_discovery")
       ELSE \E s1 \in Statuses, s2 \in Statuses, meta \in PageMetas :
               LET d == Discovery(client, Answer(s1, meta),
                                  Answer(s2, serverDoc))
               IN  /\ client' = d.client
                   /\ result' = Res(d.outcome)
                   /\ requests' = d.outcome.requests
                   /\ lastCall' = "_discovery"
                   /\ operation' = NoOperation
                   /\ callArgs' = <<>>
                   /\ callKwargs' = EmptyDict
                   /\ UNCHANGED <<options, serverDoc, name, cleaned>>

\* client._parse_api_collections(collections) on a built client
ClientParseApiCollections ==
    /\ client.state = "built"
    /\ IF client._parse_api_collections = "null"
       THEN NullCall("_parse_api_collections")
       ELSE LET parsed == ParseApiCollections(client._options, serverDoc)
            IN  /\ result' = Res(parsed)
                /\ requests' = <<>>
                /\ lastCall' = "_parse_api_collections"
                /\ operation' = NoOperation
                /\ callArgs' = <<>>
                /\ callKwargs' = EmptyDict
                /\ UNCHANGED <<client, options, serverDoc, name, cleaned>>

\* every Operation the client's collections hold
Operations ==
    UNION {{client.attrs[c].attrs[o] : o \in DOMAIN client.attrs[c].attrs} :
              c \in DOMAIN client.attrs}
    \cup {OperationInit(client._options, OpPong, NameC)}

\* collection._add(oper) on a collection of a built client
CollectionAddCall ==
    /\ client.state = "built"
    /\ \E c \in DOMAIN client.attrs, oper \in Operations :
          LET col == client.attrs[c]
          IN  IF col._add = "null" THEN NullCall("_add")
              ELSE /\ client' = [client EXCEPT !.attrs[c] =
                                    CollectionAdd(col, oper)]
                   /\ result' = Res(ReturnNone(<<>>))
                   /\ requests' = <<>>
                   /\ lastCall' = "_add"
                   /\ operation' = NoOperation
                   /\ callArgs' = <<>>
                   /\ callKwargs' = EmptyDict
                   /\ UNCHANGED <<options, serverDoc, name, cleaned>>

\* collection._finish() on a collection of a built client
CollectionFinishCall ==
    /\ client.state = "built"
    /\ \E c \in DOMAIN client.attrs :
          LET col == client.attrs[c]
          IN  IF col._finish = "null" THEN NullCall("_finish")
              ELSE /\ client' = [client EXCEPT !.attrs[c] =
                                    CollectionFinish(col)]
                   /\ result' = Res(ReturnNone(<<>>))
                   /\ requests' = <<>>
                   /\ lastCall' = "_finish"
                   /\ operation' = NoOperation
                   /\ callArgs' = <<>>
                   /\ callKwargs' = EmptyDict
                   /\ UNCHANGED <<options, serverDoc, name, cleaned>>

\* client.<collection>.<operation>(*args, **kwargs).  A call leaves the
\* client as it found it, so a call that follows a call reaches nothing a
\* first call does not: only the first of a run of calls is explored.
Call ==
    /\ client.state = "built"
    /\ lastCall # "__call__"
    /\ \E c \in DOMAIN client.attrs :
       \E o \in DOMAIN client.attrs[c].attrs :
          LET op == client.attrs[c].attrs[o]
          IN  \E args \in ArgLists(op), kwargs \in KwargDicts(op),
                 status \in Statuses :
                 LET called == OperationCall(op, args, kwargs,
                                             Answer(status, None))
                 IN  /\ operation' = op
                     /\ callArgs' = args
                     /\ callKwargs' = kwargs
                     /\ result' = Res(called)
                     /\ requests' = called.requests
    /\ lastCall' = "__call__"
    /\ UNCHANGED <<client, options, serverDoc, name, cleaned>>

Next ==
    \/ ClientInit
    \/ ClientDiscovery
    \/ ClientParseApiCollections
    \/ CollectionAddCall
    \/ CollectionFinishCall
    \/ Call

\* the client built from discovery documents of every shape
Spec == Init /\ [][Next]_vars

\* the client built for one operation, called in every way
SpecCall == InitCall /\ [][Next]_vars

--------------------------------------------------------------------------
(* _clean_name on its own *)

NameAlphabet == {"A", "b", " ", "-", "'", "\""}

UserSettings ==
    <<"U", "s", "e", "r", " ", "S", "e", "t", "t", "i", "n", "g", "s">>
DontPanic == <<"D", "o", "n", "'", "t", " ", "P", "a", "n", "i", "c">>

InitName ==
    /\ name \in SeqsUpTo(NameAlphabet, MaxNameLen) \cup {UserSettings, DontPanic}
    /\ cleaned = None
    /\ options = OptionsWith(<<>>)
    /\ serverDoc = EmptyDict
    /\ client = NewClient(options)
    /\ operation = NoOperation
    /\ callArgs = <<>>
    /\ callKwargs = EmptyDict
    /\ lastCall = "none"
    /\ result = Res(ReturnNone(<<>>))
    /\ requests = <<>>

\* _clean_name(name)
CleanNameCall ==
    /\ lastCall = "none"
    /\ cleaned' = CleanName(name)
    /\ lastCall' = "_clean_name"
    /\ UNCHANGED <<name, options, serverDoc, client, operation, callArgs,
                   callKwargs, result, requests>>

NextName == CleanNameCall

SpecName == InitName /\ [][NextName]_vars

--------------------------------------------------------------------------
(* Claims about _clean_name (SpecName) *)

\* what the normalisation does to one character
CleanChar(c) ==
    IF c = " " THEN <<"_">>
    ELSE IF c \in {"'", "\"", "-"} THEN <<>>
    ELSE <<LowerChar(c)>>

RECURSIVE CleanChars(_)
CleanChars(s) ==
    IF s = <<>> THEN <<>> ELSE CleanChar(Head(s)) \o CleanChars(Tail(s))

user_settings ==
    <<"u", "s", "e", "r", "_", "s", "e", "t", "t", "i", "n", "g", "s">>
dont_panic == <<"d", "o", "n", "t", "_", "p", "a", "n", "i", "c">>
dontpanic == <<"d", "o", "n", "t", "p", "a", "n", "i", "c">>

\* C8, as amended: _clean_name lowercases the name, turns every space into
\* an underscore and removes every apostrophe, double quote and hyphen;
\* _clean_name("User Settings") is "user_settings" and
\* _clean_name("Don't Panic") is "dont_panic".
C8_CleanName ==
    lastCall = "_clean_name" =>
        /\ cleaned = CleanChars(name)
        /\ name = UserSettings => cleaned = user_settings
        /\ name = DontPanic => cleaned = dont_panic

\* C8 as stated: the same, with _clean_name("Don't Panic") = "dontpanic".
C8_AsStated ==
    lastCall = "_clean_name" =>
        /\ cleaned = CleanChars(name)
        /\ name = UserSettings => cleaned = user_settings
        /\ name = DontPanic => cleaned = dontpanic

\* "Don't Panic" has been normalised
C8_Witness ==
    lastCall = "_clean_name" /\ name = DontPanic /\ cleaned = dont_panic

--------------------------------------------------------------------------
(* Claims about Operation.__call__ (SpecCall) *)

\* the declared path parameters of the operation called
Declared == operation._path_args

\* the declared path parameters the caller gave by keyword
KwPathArgs == {k \in DOMAIN callKwargs : InList(Declared, k)}

\* how many arguments the call resolves to: the positional ones, and the
\* keyword path arguments when these are backfilled
ResolvedCount ==
    Len(callArgs)
    + (IF Len(callArgs) < Len(Declared) THEN Cardinality(KwPathArgs) ELSE 0)

\* every declared parameter is given exactly once, positionally or by keyword
SuppliedOnce ==
    /\ Len(callArgs) + Cardinality(KwPathArgs) = Len(Declared)
    /\ \A i, j \in 1..Len(Declared) : Declared[i] = Declared[j] => i = j

\* how many of the first i declared parameters are given positionally
PositionalUpTo(i) ==
    Cardinality({j \in 1..i : Declared[j] \notin DOMAIN callKwargs})

\* the arguments of the all-positional call that gives every parameter the
\* same value: a keyword value at its parameter's place, the positional
\* values, in their order, at the remaining places
AllPositional ==
    [i \in 1..Len(Declared) |->
        IF Declared[i] \in DOMAIN callKwargs THEN callKwargs[Declared[i]]
        ELSE callArgs[PositionalUpTo(i)]]

\* the URL of the operation with the values l in its placeholders
UrlWith(l) ==
    <<options.api_root, "/v1.0/items">>
    \o [j \in 1..(2 * Len(l)) |->
           IF j % 2 = 1 THEN "/" ELSE ToStr(l[j \div 2])]

\* C1: a call that gives every declared path parameter exactly once, some
\* positionally (in declaration order) and the rest by keyword, requests the
\* URL that the all-positional call with the same values requests: the
\* template with those values in declaration order.
C1_SameUrlAsAllPositional ==
    (lastCall = "__call__" /\ SuppliedOnce) =>
        /\ Len(requests) = 1
        /\ requests[1].uri = UrlWith(AllPositional)
        /\ LET positional == OperationCall(operation, AllPositional,
                                           EmptyDict, Answer(200, None))
           IN  /\ Len(positional.requests) = 1
               /\ requests[1].uri = positional.requests[1].uri

\* the call (1, b=2) on [a, b] has requested .../items/1/2
C1_Witness ==
    /\ lastCall = "__call__"
    /\ Declared = <<"a", "b">>
    /\ callArgs = <<1>>
    /\ callKwargs = [b |-> 2]
    /\ Len(requests) = 1
    /\ requests[1].uri = <<"https://api.gab.com/", "/v1.0/items",
                           "/", "1", "/", "2">>

\* the declared parameters the call leaves without a value, in declaration
\* order: those not given by keyword, less the ones the positional
\* arguments fill
MissingNames ==
    LET open == SelectSeq(Declared, LAMBDA p : p \notin DOMAIN callKwargs)
    IN  SubSeq(open, Len(callArgs) + 1, Len(open))

\* the names a "missing" TypeError lists, in the order of the message
ListedNames ==
    LET reprs == SelectSeq(result.error[1].list, LAMBDA t : t.kind = "repr")
    IN  [i \in 1..Len(reprs) |-> reprs[i].text]

\* C2: a call that, after the keyword backfill, has fewer arguments than
\* declared path parameters raises a TypeError that lists exactly the missing
\* parameter names, in declaration order, with the count and the plural
\* matching the number missing; no request is sent.
C2_MissingNamesListed ==
    (lastCall = "__call__" /\ ResolvedCount < Len(Declared)) =>
        /\ result.raised
        /\ result.error[1].exc = "TypeError"
        /\ result.error[1].form = "missing"
        /\ result.error[1].count = Len(MissingNames)
        /\ result.error[1].plural = (IF Len(MissingNames) > 1 THEN "s" ELSE "")
        /\ ListedNames = MissingNames
        /\ requests = <<>>

\* C3: a call whose argument count (positional plus backfilled keyword path
\* arguments) exceeds the number of declared path parameters raises a
\* TypeError that reports the declared count as expected and the resolved
\* count as given, and no HTTP request is sent.
C3_SurplusRaises ==
    (lastCall = "__call__" /\ ResolvedCount > Len(Declared)) =>
        /\ result.raised
        /\ result.error[1].exc = "TypeError"
        /\ result.error[1].form = "takes"
        /\ result.error[1].expected = Len(Declared)
        /\ result.error[1].given = ResolvedCount
        /\ requests = <<>>

\* the call (1, a=1, b=2) on [a, b] was refused: takes 2, 3 given
C3_Witness ==
    /\ lastCall = "__call__"
    /\ Declared = <<"a", "b">>
    /\ callArgs = <<1>>
    /\ callKwargs = [a |-> 1, b |-> 2]
    /\ result.raised
    /\ result.error[1].form = "takes"
    /\ result.error[1].expected = 2
    /\ result.error[1].given = 3

\* the query parameter names the discovery document declares for the
\* operation called
DeclaredQuery ==
    LET query == serverDoc["item"][1]["item"][1]["request"]["urlObject"]["query"]
    IN  {query[i]["key"] : i \in 1..Len(query)}

\* C4: for every call that passes the path-argument validation, the params
\* sent with the request are exactly the caller's keyword arguments whose
\* names the query schema declares, with the caller's values; the other
\* keyword arguments are dropped and cause no error.
C4_ParamsAreDeclaredKwargs ==
    (lastCall = "__call__" /\ ResolvedCount = Len(Declared)) =>
        /\ Len(requests) = 1
        /\ DOMAIN requests[1].kwargs.params = DOMAIN callKwargs \cap DeclaredQuery
        /\ \A k \in DOMAIN requests[1].kwargs.params :
               requests[1].kwargs.params[k] = callKwargs[k]
        /\ result.raised => result.error[1].exc = "HTTPError"

\* a call with q=2 and x=1 on an operation that declares q sent only q=2
C4_Witness ==
    /\ lastCall = "__call__"
    /\ DeclaredQuery = {"q"}
    /\ callKwargs = [q |-> 2, x |-> 1]
    /\ Len(requests) = 1
    /\ requests[1].kwargs.params = [q |-> 2]
    /\ ~ result.raised

--------------------------------------------------------------------------
(* Claims about the client (Spec) *)

IsSuccess(status) == status >= 200 /\ status <= 299
IsError(status) == status >= 400 /\ status <= 599

NoneReturned == [raised |-> FALSE, error |-> <<>>, value |-> <<>>]

\* C5, as amended: every request sent through Client._request (the discovery
\* fetches and every operation call) that is answered with a 4xx or 5xx
\* status raises a request error and ends the invocation; a response is
\* returned to the caller only when its status is not an error status (2xx,
\* or a 1xx or 3xx the session hands back).
C5_ErrorStatusRaises ==
    /\ \A i \in 1..Len(requests) :
          IsError(requests[i].status) =>
              /\ result.raised
              /\ result.error = <<[exc |-> "HTTPError",
                                   status |-> requests[i].status]>>
              /\ i = Len(requests)
    /\ (lastCall = "__call__" /\ ~ result.raised) =>
          /\ Len(requests) = 1
          /\ result.value[1].status = requests[1].status
          /\ ~ IsError(result.value[1].status)

\* C5 as stated: every request answered with a non-2xx status raises a
\* request error; a response is returned only when its status is 2xx.
C5_AsStated ==
    /\ \A i \in 1..Len(requests) :
          ~ IsSuccess(requests[i].status) =>
              /\ result.raised
              /\ result.error = <<[exc |-> "HTTPError",
                                   status |-> requests[i].status]>>
    /\ (lastCall = "__call__" /\ ~ result.raised) =>
          /\ Len(requests) = 1
          /\ IsSuccess(result.value[1].status)

\* an operation call answered 404 has raised
C5_Witness ==
    /\ lastCall = "__call__"
    /\ Len(requests) = 1
    /\ requests[1].status = 404
    /\ result.raised
    /\ result.error[1].exc = "HTTPError"

RunOnceEntries == {"_discovery", "_parse_api_collections", "_add", "_finish"}

Supplied == options.api_collections # <<>>

\* the caller handed in a document with at least one key
SuppliedNonEmpty == Supplied /\ DOMAIN options.api_collections[1] # {}

\* the document discovery parsed, when it got that far
ParsedDoc == IF SuppliedNonEmpty THEN options.api_collections[1] ELSE serverDoc

\* the collection entries of the document parsed
Entries == ParsedDoc["item"]

NormalisedNames == {CleanName(Entries[i]["name"]) : i \in 1..Len(Entries)}

\* the last entry whose name normalises to k
LastNamed(k) ==
    SetMax({i \in 1..Len(Entries) : CleanName(Entries[i]["name"]) = k})

\* the collection attributes are named by _clean_name and bound to the
\* Collection built from the last entry of that name
BoundToLastWriter ==
    /\ DOMAIN client.attrs = NormalisedNames
    /\ \A k \in DOMAIN client.attrs :
          LET col == client.attrs[k]
              entry == Entries[LastNamed(k)]
          IN  /\ col.id = LastNamed(k)
              /\ col._name = k
              /\ col._display_name = entry["name"]
              /\ DOMAIN col.attrs =
                     {CleanName(entry["item"][j]["name"]) :
                         j \in 1..Len(entry["item"])}

\* C7, as amended: the built client has one collection attribute per
\* distinct normalised name, named by _clean_name of the raw name and bound
\* to the Collection built from the last entry with that normalised name;
\* that makes N attributes for N collections exactly when no two raw names
\* normalise to the same identifier, and fewer otherwise.
C7_OneAttributePerNormalisedName ==
    client.state = "built" =>
        /\ BoundToLastWriter
        /\ Cardinality(DOMAIN client.attrs) = Cardinality(NormalisedNames)
        /\ (Cardinality(DOMAIN client.attrs) = Len(Entries)) <=>
               (\A i, j \in 1..Len(Entries) :
                   CleanName(Entries[i]["name"]) = CleanName(Entries[j]["name"])
                       => i = j)

\* C7 as stated: the built client has exactly N collection attributes for a
\* document of N collections, bound last writer wins.
C7_AsStated ==
    client.state = "built" =>
        /\ Cardinality(DOMAIN client.attrs) = Len(Entries)
        /\ BoundToLastWriter

\* "Ab" then "a-b": one attribute, ab, bound to the second collection
C7_Witness ==
    /\ client.state = "built"
    /\ Len(Entries) = 2
    /\ Entries[1]["name"] = NameAb
    /\ Entries[2]["name"] = NameA_b
    /\ DOMAIN client.attrs = {<<"a", "b">>}
    /\ client.attrs[<<"a", "b">>].id = 2

\* the two discovery GETs, as far as construction got
TwoGetsInOrder ==
    /\ Len(requests) \in {1, 2}
    /\ requests[1].uri = <<options.base_uri>>
    /\ requests[1].method = HttpGet
    /\ Len(requests) = 2 =>
          /\ ~ IsError(requests[1].status)
          /\ requests[2].method = HttpGet
          /\ requests[2].uri = <<options.base_uri, "api/collections/",
                                 requests[1].body["ownerId"], "/",
                                 requests[1].body["publishedId"]>>
    /\ (/\ ~ IsError(requests[1].status)
        /\ {"ownerId", "publishedId"} \subseteq DOMAIN requests[1].body)
          => Len(requests) = 2
    /\ ~ result.raised => Len(requests) = 2

\* C9, as amended: when the caller supplies a non-empty discovery document,
\* construction sends no HTTP request; otherwise (None, or an empty dict,
\* which counts as no document) it sends the two discovery GETs in order,
\* the second only after the first succeeded; a later call of _discovery
\* sends nothing, so the document is acquired at most once.
C9_CacheBypassesNetwork ==
    /\ lastCall = "Client" =>
          /\ SuppliedNonEmpty => requests = <<>>
          /\ ~ SuppliedNonEmpty => TwoGetsInOrder
    /\ lastCall = "_discovery" => requests = <<>>

\* C9 as stated: whenever the caller supplies a document, construction sends
\* no HTTP request; otherwise it sends the two discovery GETs in order.
C9_AsStated ==
    /\ lastCall = "Client" =>
          /\ Supplied => requests = <<>>
          /\ ~ Supplied => TwoGetsInOrder
    /\ lastCall = "_discovery" => requests = <<>>

\* a client was built from a supplied document without any request
C9_Witness ==
    /\ lastCall = "Client"
    /\ SuppliedNonEmpty
    /\ client.state = "built"
    /\ Len(Entries) = 2
    /\ requests = <<>>

\* an operation entry lacks a key Operation.__init__ indexes
OperationLacksKey(op) ==
    \/ ~ ({"name", "request"} \subseteq DOMAIN op)
    \/ ~ ({"method", "url", "description", "urlObject"}
              \subseteq DOMAIN op["request"])

\* a collection entry, or one of its operations, lacks a key
CollectionLacksKey(collection) ==
    \/ ~ ({"name", "item"} \subseteq DOMAIN collection)
    \/ \E j \in 1..Len(collection["item"]) :
           OperationLacksKey(collection["item"][j])

\* the document lacks a key somewhere
DocLacksKey(doc) ==
    \/ "item" \notin DOMAIN doc
    \/ \E i \in 1..Len(doc["item"]) : CollectionLacksKey(doc["item"][i])

\* a discovery request was answered with an error status
DiscoveryRequestFailed ==
    ~ SuppliedNonEmpty /\ \E i \in 1..Len(requests) : IsError(requests[i].status)

\* the discovery page lacks ownerId or publishedId
MetadataMissing ==
    /\ ~ SuppliedNonEmpty
    /\ ~ IsError(requests[1].status)
    /\ ~ ({"ownerId", "publishedId"} \subseteq DOMAIN requests[1].body)

\* the document was acquired and lacks a key
DocumentMalformed ==
    /\ SuppliedNonEmpty \/ (Len(requests) = 2 /\ ~ IsError(requests[2].status))
    /\ DocLacksKey(ParsedDoc)

\* C10: if discovery fails at any step (an error status on either discovery
\* request, a missing ownerId or publishedId, or a missing key in the
\* discovery document, also in a later collection or operation), then
\* construction raises, no client is returned, and no collection attribute
\* has been attached to the client.
C10_FailedDiscoveryLeavesNothing ==
    lastCall = "Client" =>
        /\ DiscoveryRequestFailed =>
              result.raised /\ result.error[1].exc = "HTTPError"
        /\ (~ DiscoveryRequestFailed /\ MetadataMissing) =>
              result.raised /\ result.error[1].exc = "AttributeError"
        /\ DocumentMalformed =>
              result.raised /\ result.error[1].exc = "KeyError"
        /\ result.raised =>
              client.state = "failed" /\ DOMAIN client.attrs = {}

\* construction failed on the second collection, after the first had parsed
C10_Witness ==
    /\ lastCall = "Client"
    /\ DocumentMalformed
    /\ Len(Entries) = 2
    /\ ~ CollectionLacksKey(Entries[1])
    /\ CollectionLacksKey(Entries[2])
    /\ result.raised
    /\ client.state = "failed"
    /\ DOMAIN client.attrs = {}

==========================================================================
